---- MODULE Spec2Model ----
(***************************************************************************)
(* Model of fix_with_clementine_db                                         *)
(* (python_tools/fix_track_paths_utils/clementine_custom_music_db.py):     *)
(* the exact merge of the Mixxx library with the player's library, the     *)
(* close-match loop with its operator prompt, and the final write.         *)
(*                                                                         *)
(* Text is a sequence of character codes >= 1, so that comparison and edit *)
(* distance are computed, not assumed.  Operator responses are sequences   *)
(* of one-character strings.  The tables are functions from their index    *)
(* labels to rows.  The two tables are taken as they are after remove_feat *)
(* (line 55-57), which is not part of the sources at hand.                 *)
(***************************************************************************)
EXTENDS Integers, Sequences, FiniteSets, TLC

VARIABLES truth, other, pc, answer, df_custom, df_custom_pm, df_mixxx_nm,
          df_custom_nm, order, pos, close_indices, ans, list_idx_cm,
          df_custom_final, sink, evaluated

vars == <<truth, other, pc, answer, df_custom, df_custom_pm, df_mixxx_nm,
          df_custom_nm, order, pos, close_indices, ans, list_idx_cm,
          df_custom_final, sink, evaluated>>

----------------------------------------------------------------------------
(* Bounds of the model *)

MaxTruth == 2

MaxOther == 3

(* Configuration (config.py) *)

THRESHOLD_NAME_SIMILARITY == 3

N_SIMILAR_TRACK_PROPOSAL == 2

----------------------------------------------------------------------------
(* Values *)

\* a missing value (NaN / None) of a text column; no character has code 0
NA == <<0>>

MERGE_COLS == <<"artist", "title">>

\* the (artist, title) values the rows are drawn from
TrackVals ==
    { [artist |-> <<1>>,    title |-> <<1>>],
      [artist |-> <<1>>,    title |-> <<1, 2>>],
      [artist |-> NA,       title |-> <<1>>],
      [artist |-> <<2, 2>>, title |-> <<2>>] }

\* rows of Clementine's songs table: the file exists, or it was deleted
OtherVals ==
    { [artist |-> t.artist, title |-> t.title, exists |-> TRUE] : t \in TrackVals }
    \cup { [artist |-> <<1>>, title |-> <<1>>, exists |-> FALSE] }

\* what the operator may type
Responses == { <<>>, <<"0">>, <<"1">>, <<"2">>, <<"y">>, <<"0", "0">> }

\* no input read yet
NoInput == <<"<none>">>

\* the library's id and location columns of row i (unique per row)
MixxxId(i) == 10 + i

MixxxLocation(i) == 20 + i

\* the file path of songs row i: <<directory, file name>>
PathOf(i) == <<"music", i>>

----------------------------------------------------------------------------
(* Text helpers *)

Digits == <<"0", "1", "2", "3", "4", "5", "6", "7", "8", "9">>

\* str(i) for a natural number i
RECURSIVE Str(_)
Str(i) == IF i < 10 THEN <<Digits[i + 1]>>
          ELSE Str(i \div 10) \o <<Digits[(i % 10) + 1]>>

DigitValue(c) == (CHOOSE k \in 1..10 : Digits[k] = c) - 1

\* int(s) for a string of decimal digits
RECURSIVE IntOf(_)
IntOf(s) == IF Len(s) = 0 THEN 0
            ELSE 10 * IntOf(SubSeq(s, 1, Len(s) - 1)) + DigitValue(s[Len(s)])

\* fillna("")
FillNa(v) == IF v = NA THEN <<>> ELSE v

\* a < b for str
RECURSIVE StrLt(_, _)
StrLt(a, b) ==
    IF Len(b) = 0 THEN FALSE
    ELSE IF Len(a) = 0 THEN TRUE
    ELSE IF a[1] # b[1] THEN a[1] < b[1]
    ELSE StrLt(Tail(a), Tail(b))

Min2(x, y) == IF x <= y THEN x ELSE y

\* edit distance
RECURSIVE Levenshtein(_, _)
Levenshtein(a, b) ==
    IF Len(a) = 0 THEN Len(b)
    ELSE IF Len(b) = 0 THEN Len(a)
    ELSE IF a[1] = b[1] THEN Levenshtein(Tail(a), Tail(b))
    ELSE 1 + Min2(Levenshtein(Tail(a), Tail(b)),
                  Min2(Levenshtein(Tail(a), b), Levenshtein(a, Tail(b))))

\* the elements of a set of index labels in ascending order
RECURSIVE IndexOrder(_)
IndexOrder(S) ==
    IF S = {} THEN <<>>
    ELSE LET m == CHOOSE x \in S : \A y \in S : x <= y
         IN  <<m>> \o IndexOrder(S \ {m})

Range(s) == { s[k] : k \in 1..Len(s) }

----------------------------------------------------------------------------
(* The exact merge, lines 48-86 *)

\* line 48-50: the rows of the songs table whose file exists
ExistingRows(o) == { i \in DOMAIN o : o[i].exists }

\* merge on the first column only
KeysEqualFirstCol(a, b) == a[MERGE_COLS[1]] = b[MERGE_COLS[1]]

\* the join condition of pd.merge: equal on every column of MERGE_COLS
\* (pandas matches a missing key with a missing key)
KeysEqual(a, b) == \A k \in 1..Len(MERGE_COLS) : a[MERGE_COLS[k]] = b[MERGE_COLS[k]]

\* the rows of one left row's matches, in the order of the right table
RECURSIVE MatchesOf(_, _, _, _)
MatchesOf(c, o, t, ms) ==
    IF Len(ms) = 0 THEN <<>>
    ELSE (IF KeysEqual(o[c], t[ms[1]])
          THEN << [custom |-> c, mixxx |-> ms[1]] >> ELSE <<>>)
         \o MatchesOf(c, o, t, Tail(ms))

\* line 71-78: pd.merge(left=df_custom, right=df_mixxx, how="inner"): every
\* pair of rows with equal keys, in the order of the left table
RECURSIVE MergeRows(_, _, _)
MergeRows(cs, o, t) ==
    IF Len(cs) = 0 THEN <<>>
    ELSE MatchesOf(cs[1], o, t, IndexOrder(DOMAIN t)) \o MergeRows(Tail(cs), o, t)

PerfectMatch(dfc, o, t) == MergeRows(IndexOrder(dfc), o, t)

\* drop by the other table's saved index
DropMixxxByCustomIdx(t, pm) == DOMAIN t \ { pm[k].custom : k \in 1..Len(pm) }

\* line 85: df_mixxx.drop(index=df_custom_pm[IDX_MIXXX])
DropMixxx(t, pm) == DOMAIN t \ { pm[k].mixxx : k \in 1..Len(pm) }

\* line 86: df_custom.drop(index=df_custom_pm[IDX_CUSTOM])
DropCustom(dfc, pm) == dfc \ { pm[k].custom : k \in 1..Len(pm) }

\* the three columns kept of a merged row (line 154-160)
PmRow(p) == [lib |-> MixxxId(p.mixxx), loc |-> MixxxLocation(p.mixxx),
             path |-> PathOf(p.custom)]

PmRows(pm) == [k \in 1..Len(pm) |-> PmRow(pm[k])]

----------------------------------------------------------------------------
(* The close-match loop, lines 95-141 *)

\* line 96-97: a row with its MERGE_COLS filled
Filled(r) == [artist |-> FillNa(r.artist), title |-> FillNa(r.title)]

\* (artist, title) of a before that of b
KeyLt(a, b) ==
    \/ StrLt(a.artist, b.artist)
    \/ a.artist = b.artist /\ StrLt(a.title, b.title)

\* the rows in the order of the table
IterrowsUnsorted(t, S) == IndexOrder(S)

\* line 100-102: df_mixxx_nm.sort_values(by=["artist", "title"]): the labels of
\* S by ascending key, rows of equal key in the order of the table
RECURSIVE SortValues(_, _)
SortValues(t, S) ==
    IF S = {} THEN <<>>
    ELSE LET m == CHOOSE x \in S : \A y \in S \ {x} :
                      \/ KeyLt(Filled(t[x]), Filled(t[y]))
                      \/ ~KeyLt(Filled(t[y]), Filled(t[x])) /\ x < y
         IN  <<m>> \o SortValues(t, S \ {m})

\* the distance of a row to a row of the pool: the edit distances of the
\* merge columns added up
Distance(row, cand, cols) ==
    LET d[k \in 0..Len(cols)] ==
            IF k = 0 THEN 0
            ELSE d[k - 1] + Levenshtein(row[cols[k]], cand[cols[k]])
    IN  d[Len(cols)]

\* the labels of S by ascending distance to row, then by label
RECURSIVE ByDistance(_, _, _, _)
ByDistance(row, o, S, cols) ==
    IF S = {} THEN <<>>
    ELSE LET dist(x) == Distance(row, Filled(o[x]), cols)
             m == CHOOSE x \in S : \A y \in S \ {x} :
                      \/ dist(x) < dist(y)
                      \/ dist(x) = dist(y) /\ x < y
         IN  <<m>> \o ByDistance(row, o, S \ {m}, cols)

\* python_tools.utils.track_utils.get_closest_matches_indices: the labels of the
\* at most n rows of the pool nearest to row, each nearer than threshold
get_closest_matches_indices(row, o, pool, cols, threshold, n) ==
    LET near   == { x \in pool : Distance(row, Filled(o[x]), cols) < threshold }
        ranked == ByDistance(row, o, near, cols)
    IN  SubSeq(ranked, 1, Min2(n, Len(ranked)))

\* the two numbers passed in each other's place
CloseIndicesSwapped(row, o, pool) ==
    get_closest_matches_indices(row, o, pool, MERGE_COLS,
                                N_SIMILAR_TRACK_PROPOSAL, THRESHOLD_NAME_SIMILARITY)

\* line 106-112: the call
CloseIndices(row, o, pool) ==
    get_closest_matches_indices(row, o, pool, MERGE_COLS,
                                THRESHOLD_NAME_SIMILARITY, N_SIMILAR_TRACK_PROPOSAL)

\* the whole songs table as the pool
PoolAll == df_custom

\* line 108: the pool is df_custom_nm
Pool == df_custom_nm

\* the empty response left out
AnsCheckNoEmpty(ci) == { Str(i) : i \in 0..(Len(ci) - 1) }

\* line 120-124: ans_check
AnsCheck(ci) == { <<>> } \cup { Str(i) : i \in 0..(Len(ci) - 1) }

\* the index tested as a number
SelectedNonZero(a) == a # <<>> /\ IntOf(a) # 0

\* line 133: if ans
Selected(a) == a # <<>>

\* line 134-141: the row appended to list_idx_cm
CmRow(idx_mixxx, ci, a) ==
    [lib  |-> MixxxId(idx_mixxx), loc |-> MixxxLocation(idx_mixxx),
     path |-> PathOf(ci[IntOf(a) + 1])]

\* the loop left after its first row
LoopFinishedEarly == pos > 1

\* line 100: the iteration is over
LoopFinished == pos > Len(order)

\* line 161-166: the file name and the directory of each row
WithFileColumns(rows) ==
    [k \in 1..Len(rows) |->
        [lib |-> rows[k].lib, loc |-> rows[k].loc, path |-> rows[k].path,
         filename  |-> rows[k].path[Len(rows[k].path)],
         directory |-> SubSeq(rows[k].path, 1, Len(rows[k].path) - 1)]]

----------------------------------------------------------------------------
(* The run *)

Init ==
    /\ truth \in UNION { [1..n -> TrackVals] : n \in 0..MaxTruth }
    /\ other \in UNION { [1..n -> OtherVals] : n \in 0..MaxOther }
    /\ pc = "start"
    /\ answer = NoInput
    /\ ans = NoInput
    /\ df_custom = {}
    /\ df_custom_pm = <<>>
    /\ df_mixxx_nm = {}
    /\ df_custom_nm = {}
    /\ order = <<>>
    /\ pos = 1
    /\ close_indices = <<>>
    /\ list_idx_cm = <<>>
    /\ df_custom_final = <<>>
    /\ sink = <<>>
    /\ evaluated = <<>>

\* line 26-29
CheckMissing ==
    /\ pc = "start"
    /\ pc' = IF Len(truth) = 0 THEN "exited" ELSE "confirm"
    /\ UNCHANGED <<truth, other, answer, df_custom, df_custom_pm, df_mixxx_nm,
                   df_custom_nm, order, pos, close_indices, ans, list_idx_cm,
                   df_custom_final, sink, evaluated>>

\* line 33-36
AnswerRefresh ==
    /\ pc = "confirm"
    /\ \E a \in Responses :
          /\ answer' = a
          /\ pc' = IF a # <<"y">> THEN "exited" ELSE "match"
    /\ UNCHANGED <<truth, other, df_custom, df_custom_pm, df_mixxx_nm,
                   df_custom_nm, order, pos, close_indices, ans, list_idx_cm,
                   df_custom_final, sink, evaluated>>

\* line 38-99
ExactMatch ==
    /\ pc = "match"
    /\ LET dfc == ExistingRows(other)
           pm  == PerfectMatch(dfc, other, truth)
           nm  == DropMixxx(truth, pm)
       IN  /\ df_custom' = dfc
           /\ df_custom_pm' = pm
           /\ df_custom_final' = PmRows(pm)
           /\ df_mixxx_nm' = nm
           /\ df_custom_nm' = DropCustom(dfc, pm)
           /\ order' = SortValues(truth, nm)
           /\ pc' = IF Cardinality(nm) # 0 THEN "loop" ELSE "final"
    /\ pos' = 1
    /\ list_idx_cm' = <<>>
    /\ UNCHANGED <<truth, other, answer, close_indices, ans, sink, evaluated>>

\* line 100-124: the next row of the iteration and its candidates
Propose ==
    /\ pc = "loop"
    /\ ~LoopFinished
    /\ LET ci == CloseIndices(Filled(truth[order[pos]]), other, Pool)
       IN  /\ close_indices' = ci
           /\ evaluated' = Append(evaluated, order[pos])
           /\ IF Len(ci) = 0
              THEN pc' = "loop" /\ pos' = pos + 1
              ELSE pc' = "prompt" /\ pos' = pos
    /\ UNCHANGED <<truth, other, answer, df_custom, df_custom_pm, df_mixxx_nm,
                   df_custom_nm, order, ans, list_idx_cm, df_custom_final, sink>>

\* line 126-141: one response to the prompt
Answer ==
    /\ pc = "prompt"
    /\ \E a \in Responses :
          /\ ans' = a
          /\ IF a \in AnsCheck(close_indices)
             THEN /\ pc' = "loop"
                  /\ pos' = pos + 1
                  /\ list_idx_cm' =
                        IF Selected(a)
                        THEN Append(list_idx_cm, CmRow(order[pos], close_indices, a))
                        ELSE list_idx_cm
             ELSE UNCHANGED <<pc, pos, list_idx_cm>>
    /\ UNCHANGED <<truth, other, answer, df_custom, df_custom_pm, df_mixxx_nm,
                   df_custom_nm, order, close_indices, df_custom_final, sink,
                   evaluated>>

\* line 143-151
LoopEnd ==
    /\ pc = "loop"
    /\ LoopFinished
    /\ df_custom_final' = PmRows(df_custom_pm) \o list_idx_cm
    /\ pc' = "final"
    /\ UNCHANGED <<truth, other, answer, df_custom, df_custom_pm, df_mixxx_nm,
                   df_custom_nm, order, pos, close_indices, ans, list_idx_cm,
                   sink, evaluated>>

\* line 154-173
Finalize ==
    /\ pc = "final"
    /\ sink' = Append(sink, WithFileColumns(df_custom_final))
    /\ pc' = "done"
    /\ UNCHANGED <<truth, other, answer, df_custom, df_custom_pm, df_mixxx_nm,
                   df_custom_nm, order, pos, close_indices, ans, list_idx_cm,
                   df_custom_final, evaluated>>

\* line 33, 127: the operator ends the run at a prompt (input() raises)
Abort ==
    /\ pc \in {"confirm", "prompt"}
    /\ pc' = "aborted"
    /\ UNCHANGED <<truth, other, answer, df_custom, df_custom_pm, df_mixxx_nm,
                   df_custom_nm, order, pos, close_indices, ans, list_idx_cm,
                   df_custom_final, sink, evaluated>>

Next ==
    \/ CheckMissing
    \/ AnswerRefresh
    \/ ExactMatch
    \/ Propose
    \/ Answer
    \/ LoopEnd
    \/ Finalize
    \/ Abort

Spec == Init /\ [][Next]_vars

----------------------------------------------------------------------------
(* Properties *)

\* the exact merge has run
Matched == pc \in {"loop", "prompt", "final", "done"}

TruthSideOfPairs == { df_custom_pm[k].mixxx : k \in 1..Len(df_custom_pm) }

OtherSideOfPairs == { df_custom_pm[k].custom : k \in 1..Len(df_custom_pm) }

SameMergeFields(a, b) == a.artist = b.artist /\ a.title = b.title

\* the responses that answer a prompt of n candidates
ValidResponses(n) == { <<>> } \cup { <<Digits[k]>> : k \in 1..n }

\* the row under evaluation and its distance to songs row x
CurrentDistance(x) ==
    Distance(Filled(truth[order[pos]]), Filled(other[x]), MERGE_COLS)

(* C1: every row of the table written corresponds to exactly one row of the *)
(* library, and no library id is in two rows of it.                         *)
C1_MergeSoundness ==
    \A w \in 1..Len(sink) :
        /\ \A k \in 1..Len(sink[w]) :
              Cardinality({ i \in DOMAIN truth : MixxxId(i) = sink[w][k].lib }) = 1
        /\ \A j, k \in 1..Len(sink[w]) :
              j # k => sink[w][j].lib # sink[w][k].lib

C3_ExactMatchCompleteness ==
    Matched =>
        /\ \A k \in 1..Len(df_custom_pm) :
              SameMergeFields(other[df_custom_pm[k].custom], truth[df_custom_pm[k].mixxx])
        /\ \A i \in df_mixxx_nm : \A j \in DOMAIN other :
              other[j].exists => ~SameMergeFields(truth[i], other[j])
        /\ \A j \in df_custom_nm : \A i \in DOMAIN truth :
              ~SameMergeFields(truth[i], other[j])

C3_Witness ==
    /\ Matched
    /\ df_custom_pm # <<>>
    /\ \E i \in df_mixxx_nm : \E j \in df_custom_nm :
          truth[i].artist = other[j].artist /\ truth[i].title # other[j].title

(* C4: in the table written no path of a songs row is paired with two       *)
(* different library rows.                                                  *)
C4_OtherConsumedOnce ==
    \A w \in 1..Len(sink) : \A j, k \in 1..Len(sink[w]) :
        sink[w][j].path = sink[w][k].path => sink[w][j].lib = sink[w][k].lib

(* C5: at a prompt of n >= 1 candidates only "" and "0" .. "n-1" end the     *)
(* prompt, and each of them does; any other response leaves the run at the  *)
(* same prompt with nothing recorded; the run leaves a prompt only answered *)
(* or aborted by the operator.                                              *)
C5_InputValidation ==
    [][ pc = "prompt" =>
          /\ Len(close_indices) >= 1
          /\ pc' \in {"prompt", "loop", "aborted"}
          /\ pc' = "loop" => ans' \in ValidResponses(Len(close_indices))
          /\ pc' = "prompt" =>
                /\ ans' \notin ValidResponses(Len(close_indices))
                /\ UNCHANGED <<pos, close_indices, list_idx_cm, order, sink, evaluated>>
      ]_vars

C5_Witness ==
    /\ pc = "prompt"
    /\ ans = <<"0", "0">>
    /\ Len(close_indices) >= 1

(* C6: the sink is written at most once, only when every unmatched library  *)
(* row has been resolved; a run that ended early has written nothing.       *)
C6_AllOrNothing ==
    /\ Len(sink) <= 1
    /\ sink # <<>> =>
          /\ pc = "done"
          /\ pos > Len(order)
          /\ Range(evaluated) = df_mixxx_nm
    /\ pc \in {"exited", "aborted"} => sink = <<>>

C6_Witness ==
    /\ pc = "done"
    /\ Len(sink) = 1
    /\ Len(evaluated) >= 2
    /\ list_idx_cm # <<>>

(* C7: the unmatched library rows are evaluated in ascending order of       *)
(* (artist, title), each once, whatever their order in the library.         *)
C7_EvaluationOrder ==
    /\ \A j, k \in 1..Len(evaluated) :
          j < k => /\ evaluated[j] # evaluated[k]
                   /\ ~KeyLt(Filled(truth[evaluated[k]]), Filled(truth[evaluated[j]]))
    /\ Range(evaluated) \subseteq df_mixxx_nm
    /\ pc \in {"final", "done"} => Range(evaluated) = df_mixxx_nm

C7_Witness ==
    /\ pc = "done"
    /\ Len(evaluated) >= 2
    /\ evaluated[1] > evaluated[2]

(* C8: the candidates proposed are never more than                          *)
(* N_SIMILAR_TRACK_PROPOSAL and each is nearer than                         *)
(* THRESHOLD_NAME_SIMILARITY.                                               *)
C8_CandidateBound ==
    /\ Len(close_indices) <= N_SIMILAR_TRACK_PROPOSAL
    /\ pc = "prompt" =>
          \A k \in 1..Len(close_indices) :
              CurrentDistance(close_indices[k]) < THRESHOLD_NAME_SIMILARITY

C8_Witness ==
    /\ pc = "prompt"
    /\ Len(close_indices) = N_SIMILAR_TRACK_PROPOSAL
    /\ Cardinality({ x \in df_custom_nm :
                       CurrentDistance(x) < THRESHOLD_NAME_SIMILARITY })
          > N_SIMILAR_TRACK_PROPOSAL

(* C9: a songs row of an exact pair is never in the pool, proposed or       *)
(* recorded as a confirmed match, and a library row of an exact pair is     *)
(* never evaluated by the close-match loop.                                 *)
C9_ExactExcluded ==
    Matched =>
        /\ Pool \cap OtherSideOfPairs = {}
        /\ Range(close_indices) \cap OtherSideOfPairs = {}
        /\ \A k \in 1..Len(list_idx_cm) :
              /\ \A c \in OtherSideOfPairs : list_idx_cm[k].path # PathOf(c)
              /\ \A m \in TruthSideOfPairs : list_idx_cm[k].lib # MixxxId(m)
        /\ Range(evaluated) \cap TruthSideOfPairs = {}

C9_Witness ==
    /\ pc = "prompt"
    /\ df_custom_pm # <<>>
    /\ \E c \in OtherSideOfPairs : CurrentDistance(c) < THRESHOLD_NAME_SIMILARITY

(* C10: a valid index i records exactly one match, the row's keys with the  *)
(* path of the i-th candidate shown; the empty response and an empty        *)
(* candidate list record nothing; the table written is the exact pairs      *)
(* followed by the confirmed matches.                                       *)
C10_ResolutionEffect ==
    /\ [][ /\ (pc = "prompt" /\ pc' = "loop") =>
                IF ans' = <<>>
                THEN list_idx_cm' = list_idx_cm
                ELSE \E i \in 1..Len(close_indices) :
                        /\ ans' = <<Digits[i]>>
                        /\ list_idx_cm' =
                              Append(list_idx_cm,
                                     [lib  |-> MixxxId(order[pos]),
                                      loc  |-> MixxxLocation(order[pos]),
                                      path |-> PathOf(close_indices[i])])
           /\ (pc = "loop" /\ pc' = "loop") => list_idx_cm' = list_idx_cm
         ]_vars
    /\ [](pc = "done" =>
            /\ Len(sink) = 1
            /\ Len(sink[1]) = Len(df_custom_pm) + Len(list_idx_cm)
            /\ \A k \in 1..Len(sink[1]) :
                  LET row == [lib |-> sink[1][k].lib, loc |-> sink[1][k].loc,
                              path |-> sink[1][k].path]
                  IN  IF k <= Len(df_custom_pm)
                      THEN row = [lib  |-> MixxxId(df_custom_pm[k].mixxx),
                                  loc  |-> MixxxLocation(df_custom_pm[k].mixxx),
                                  path |-> PathOf(df_custom_pm[k].custom)]
                      ELSE row = list_idx_cm[k - Len(df_custom_pm)])

C10_Witness ==
    /\ pc = "done"
    /\ df_custom_pm # <<>>
    /\ list_idx_cm # <<>>
    /\ ans = <<"1">>

====
